---- MODULE Spec2Model ----
(***************************************************************************)
(* cssselect2/compiler.py: the selector compiler.                          *)
(*                                                                         *)
(* _compile_node translates a parsed selector tree into the source text of *)
(* a boolean Python expression over `el`; CompiledSelector evaluates       *)
(* 'lambda el: ' + source into the matcher `test` and records the          *)
(* never_matches flag and the id / class_name / local_name / namespace     *)
(* hints.                                                                  *)
(*                                                                         *)
(* The generated source text is modelled as an expression tree, one node   *)
(* per generated construct (every sub-expression the code passes around is *)
(* parenthesised where it is pasted, so the tree is the parse of the       *)
(* text).  Run evaluates such a tree as Python evaluates the text:         *)
(* left to right, `and` and any() short-circuiting, generator expressions  *)
(* rebinding `el`.                                                         *)
(*                                                                         *)
(* Text is a sequence of one-character strings.  An optional value (a      *)
(* Python value that may be None) is a sequence of length <= 1: <<>> is    *)
(* None, <<v>> is v.  An element reference is a node number, 0 is None.    *)
(***************************************************************************)
EXTENDS Integers, Sequences, FiniteSets, TLC

VARIABLES doc, parsed, compiled, el, outcome, trace

vars == <<doc, parsed, compiled, el, outcome, trace>>

\* Bounds of the model.
NumNodes == 4
MaxNth == 3
MaxValueLen == 2
MaxSimple == 2

None == <<>>
Some(v) == <<v>>

NoElement == 0
Nodes == 1..NumNodes

(***************************************************************************)
(* Text helpers: what the generated expressions call on str.               *)
(***************************************************************************)
VT == "\\v"

\* The class [ \t\r\n\f] of the split_whitespace regular expression.
CssWhitespace == {" ", "\t", "\r", "\n", "\f"}

IsCssWhitespace(c) == c \in CssWhitespace

\* What str.split() and str.strip() without arguments treat as whitespace:
\* the same and more, the vertical tab among them.
PyWhitespace == {" ", "\t", "\r", "\n", "\f", VT}

IsPyWhitespace(c) == c \in PyWhitespace

\* The maximal runs of s without a character of `whitespace`, as
\* <<first, last>>.
TokenSpans(s, whitespace) ==
    {sp \in (1..Len(s)) \X (1..Len(s)) :
        /\ sp[1] <= sp[2]
        /\ \A k \in sp[1]..sp[2] : s[k] \notin whitespace
        /\ (sp[1] = 1 \/ s[sp[1] - 1] \in whitespace)
        /\ (sp[2] = Len(s) \/ s[sp[2] + 1] \in whitespace)}

\* re.compile('[^ \t\r\n\f]+').findall, as the set of the tokens found.
split_whitespace(s) ==
    {SubSeq(s, sp[1], sp[2]) : sp \in TokenSpans(s, CssWhitespace)}

\* len(value.split())
PySplitLen(s) == Cardinality(TokenSpans(s, PyWhitespace))

\* value.strip()
PyStrip(s) ==
    LET keep == {k \in 1..Len(s) : ~IsPyWhitespace(s[k])}
        lo == CHOOSE k \in keep : \A j \in keep : k <= j
        hi == CHOOSE k \in keep : \A j \in keep : j <= k
    IN  IF keep = {} THEN <<>> ELSE SubSeq(s, lo, hi)

StartsWith(s, p) == Len(p) <= Len(s) /\ SubSeq(s, 1, Len(p)) = p

EndsWith(s, p) ==
    Len(p) <= Len(s) /\ SubSeq(s, Len(s) - Len(p) + 1, Len(s)) = p

\* p in s, for two strings
Contains(s, p) ==
    \E i \in 1..(Len(s) + 1) :
        i + Len(p) - 1 <= Len(s) /\ SubSeq(s, i, i + Len(p) - 1) = p

\* Python's divmod: the quotient is floored, the remainder has the sign of
\* the divisor.  Only called with a # 0.
divmod(x, a) ==
    LET mag == IF x < 0 THEN -x ELSE x
        n == CHOOSE q \in (-mag - 1)..(mag + 1) :
                 IF a > 0 THEN a * q <= x /\ x < a * q + a
                          ELSE a * q >= x /\ x > a * q + a
    IN  [n |-> n, r |-> x - a * n]

(***************************************************************************)
(* The Element adapter (cssselect2.tree.ElementWrapper), read only.        *)
(* A document is [parent, kind]: parent[n] is the parent of node n (0 for  *)
(* the root), siblings are in node order, kind[n] indexes Profiles.        *)
(***************************************************************************)
XHTML == "http://www.w3.org/1999/xhtml"

Text_en == <<"e", "n">>
Text_en_us == <<"e", "n", "-", "u", "s">>

Profiles ==
    << [tag |-> <<XHTML, "a">>, id |-> Some("foo"), classes |-> {"x"},
        attrs |-> (<<"", "href">> :> <<"a", "b">>) @@ (<<"", "title">> :> <<"a", " ", "b">>),
        lang |-> Some(Text_en), text |-> TRUE],
       [tag |-> <<"", "div">>, id |-> None, classes |-> {"x", "y"},
        attrs |-> (<<"", "title">> :> <<"a">>) @@ (<<"ns", "title">> :> <<"a", "-", "b">>),
        lang |-> Some(Text_en_us), text |-> FALSE],
       [tag |-> <<XHTML, "input">>, id |-> Some("bar"), classes |-> {},
        attrs |-> (<<"", "disabled">> :> <<>>) @@ (<<"", "checked">> :> <<>>)
                    @@ (<<"", "title">> :> <<"a", VT, "b">>),
        lang |-> None, text |-> FALSE],
       [tag |-> <<XHTML, "option">>, id |-> Some("foo"), classes |-> {"y"},
        attrs |-> (<<"", "selected">> :> <<"a">>) @@ (<<"", "title">> :> <<" ", "a">>),
        lang |-> Some(Text_en), text |-> TRUE] >>

profile(e) == Profiles[doc.kind[e]]

parent(e) == doc.parent[e]

\* el.etree_siblings, as the nodes in document order
etree_siblings(e) ==
    LET sibs == {s \in Nodes : doc.parent[s] = doc.parent[e]}
        RECURSIVE Sorted(_)
        Sorted(S) ==
            IF S = {} THEN <<>>
            ELSE LET m == CHOOSE x \in S : \A y \in S : x <= y
                 IN  <<m>> \o Sorted(S \ {m})
    IN  Sorted(sibs)

\* el.index, 0-based
index(e) == Cardinality({s \in Nodes : doc.parent[s] = doc.parent[e] /\ s < e})

previous(e) ==
    IF index(e) = 0 THEN NoElement ELSE etree_siblings(e)[index(e)]

\* nearest first
RECURSIVE iter_ancestors(_)
iter_ancestors(e) ==
    IF parent(e) = NoElement THEN <<>>
    ELSE <<parent(e)>> \o iter_ancestors(parent(e))

\* nearest first
RECURSIVE iter_previous_siblings(_)
iter_previous_siblings(e) ==
    IF previous(e) = NoElement THEN <<>>
    ELSE <<previous(e)>> \o iter_previous_siblings(previous(e))

etree_tag(e) == profile(e).tag

local_name(e) == profile(e).tag[2]

namespace_url(e) ==
    IF profile(e).tag[1] = "" THEN None ELSE Some(profile(e).tag[1])

etree_children(e) == {c \in Nodes : doc.parent[c] = e}

\* el.get_attr(key), None when absent
get_attr(e, key) ==
    IF key \in DOMAIN profile(e).attrs THEN Some(profile(e).attrs[key]) ELSE None

\* el.get_attr(key, default)
get_attr_default(e, key, default) ==
    IF key \in DOMAIN profile(e).attrs THEN profile(e).attrs[key] ELSE default

(***************************************************************************)
(* The parsed selector tree (cssselect2.parser): one record per node       *)
(* class, `type` the class name.  A NegationSelector is a CompoundSelector *)
(* subclass.  The parser builds combinator chains to the left: the right   *)
(* operand of a CombinedSelector is always a compound.                     *)
(***************************************************************************)
CombinedSelector(left, combinator, right) ==
    [type |-> "CombinedSelector", left |-> left, combinator |-> combinator,
     right |-> right]

CompoundSelector(simple_selectors) ==
    [type |-> "CompoundSelector", simple_selectors |-> simple_selectors]

NegationSelector(simple_selectors) ==
    [type |-> "NegationSelector", simple_selectors |-> simple_selectors]

LocalNameSelector(name) == [type |-> "LocalNameSelector", local_name |-> name]

NamespaceSelector(namespace) ==
    [type |-> "NamespaceSelector", namespace |-> namespace]

ClassSelector(name) == [type |-> "ClassSelector", class_name |-> name]

IDSelector(ident) == [type |-> "IDSelector", ident |-> ident]

\* namespace: None (any namespace), Some("") (no namespace) or Some(url);
\* operator: None or Some(symbol)
AttributeSelector(namespace, name, operator, value) ==
    [type |-> "AttributeSelector", namespace |-> namespace, name |-> name,
     operator |-> operator, value |-> value]

PseudoClassSelector(name) == [type |-> "PseudoClassSelector", name |-> name]

FunctionalPseudoClassSelector(name, arguments) ==
    [type |-> "FunctionalPseudoClassSelector", name |-> name,
     arguments |-> arguments]

\* An object of a class _compile_node does not know.
UnknownNode == [type |-> "object"]

IsCompound(selector) ==
    selector.type \in {"CompoundSelector", "NegationSelector"}

(***************************************************************************)
(* tinycss2.nth.parse_nth: an An+B argument is kept as one token           *)
(* [type |-> "an+b", value |-> <<a, b>>]; anything else does not parse.    *)
(***************************************************************************)
NotWhitespace(t) == t.type # "whitespace"

parse_nth(arguments) ==
    LET tokens == SelectSeq(arguments, NotWhitespace)
    IN  IF Len(tokens) = 1 /\ tokens[1].type = "an+b"
        THEN Some(tokens[1].value) ELSE None

(***************************************************************************)
(* _compile_node: the source text it returns, as an expression tree, or    *)
(* the exception it raises.                                                *)
(***************************************************************************)
Zero == [op |-> "0"]

One == [op |-> "1"]

Raise(exc) == [op |-> "raise", exc |-> exc]

IsRaise(x) == x.op = "raise"

NotOne(expr) == expr # One

\* '{%s}%s' % (namespace, name), or name alone for the empty namespace
AttrKey(namespace, name) == <<namespace, name>>

\* CompileIncludes rejecting only the operands of several tokens.
CompileIncludesSeveral(key, value) ==
    IF PySplitLen(value) > 1 \/ PyStrip(value) # value
    THEN Zero
    ELSE [op |-> "attr_includes", key |-> key, value |-> value]

\* operator '~='
CompileIncludes(key, value) ==
    IF PySplitLen(value) # 1 \/ PyStrip(value) # value
    THEN Zero
    ELSE [op |-> "attr_includes", key |-> key, value |-> value]

CompileAttribute(selector) ==
    IF selector.namespace # None
    THEN LET key == AttrKey(selector.namespace[1], selector.name)
             value == selector.value
             operator == selector.operator
         IN  IF operator = None
             THEN [op |-> "attr_present", key |-> key]
             ELSE IF operator = Some("=")
             THEN [op |-> "attr_eq", key |-> key, value |-> value]
             ELSE IF operator = Some("~=")
             THEN CompileIncludes(key, value)
             ELSE IF operator = Some("|=")
             THEN [op |-> "attr_dash", key |-> key, value |-> value,
                   prefix |-> value \o <<"-">>]
             ELSE IF operator = Some("^=")
             THEN IF value # <<>>
                  THEN [op |-> "attr_prefix", key |-> key, value |-> value]
                  ELSE Zero
             ELSE IF operator = Some("$=")
             THEN IF value # <<>>
                  THEN [op |-> "attr_suffix", key |-> key, value |-> value]
                  ELSE Zero
             ELSE IF operator = Some("*=")
             THEN IF value # <<>>
                  THEN [op |-> "attr_substring", key |-> key, value |-> value]
                  ELSE Zero
             ELSE Raise("SelectorError")
    ELSE Raise("NotImplementedError")

StaticPseudoClasses ==
    {"link", "enabled", "disabled", "checked", "root", "first-child",
     "last-child", "first-of-type", "last-of-type", "only-child",
     "only-of-type", "empty"}

CompilePseudoClass(selector) ==
    IF selector.name \in {"visited", "hover", "active", "focus", "target"}
    THEN Zero
    ELSE IF selector.name \in StaticPseudoClasses
    THEN [op |-> "pseudo", name |-> selector.name]
    ELSE Raise("SelectorError")

NthNames == {"nth-child", "nth-last-child", "nth-of-type", "nth-last-of-type"}

\* NthExpression without the shift from the 1-based b to the 0-based count.
NthExpressionUnshifted(count, a, b) ==
    IF a = 0
    THEN [op |-> "count_eq", count |-> count, B |-> b]
    ELSE [op |-> "divmod_test", count |-> count, B |-> b, a |-> a]

\* x = a*n + b-1 for the count x: the test generated for (a, b)
NthExpression(count, a, b) ==
    LET B == b - 1
    IN  IF a = 0
        THEN [op |-> "count_eq", count |-> count, B |-> B]
        ELSE [op |-> "divmod_test", count |-> count, B |-> B, a |-> a]

CompileFunctionalPseudoClass(selector) ==
    IF selector.name = "lang"
    THEN LET tokens == SelectSeq(selector.arguments, NotWhitespace)
         IN  IF Len(tokens) = 1 /\ tokens[1].type = "ident"
             THEN [op |-> "lang", lang |-> tokens[1].value,
                   prefix |-> tokens[1].value \o <<"-">>]
             ELSE Raise("SelectorError")
    ELSE IF selector.name \notin NthNames
    THEN Raise("SelectorError")
    ELSE LET result == parse_nth(selector.arguments)
         IN  IF result = None
             THEN Raise("SelectorError")
             ELSE NthExpression(selector.name, result[1][1], result[1][2])

RECURSIVE _compile_node(_)

\* the conjunction of the sub-expressions that are not '1'
JoinCompound(sub_expressions) ==
    IF Len(sub_expressions) = 1 THEN sub_expressions[1]
    ELSE IF \E i \in 1..Len(sub_expressions) : sub_expressions[i] = Zero
    THEN Zero
    ELSE IF Len(sub_expressions) > 0
    THEN [op |-> "and", args |-> sub_expressions]
    ELSE One

\* Negate returning the literals unswapped.
NegateKeepsLiterals(test) ==
    IF test = Zero THEN Zero
    ELSE IF test = One THEN One
    ELSE [op |-> "not", arg |-> test]

\* isinstance(selector, parser.NegationSelector)
Negate(test) ==
    IF test = Zero THEN One
    ELSE IF test = One THEN Zero
    ELSE [op |-> "not", arg |-> test]

CompileCompound(selector) ==
    LET simple == selector.simple_selectors
        exprs == [i \in 1..Len(simple) |-> _compile_node(simple[i])]
        raising == {i \in 1..Len(simple) : IsRaise(exprs[i])}
        test == JoinCompound(SelectSeq(exprs, NotOne))
    IN  IF raising # {}
        THEN exprs[CHOOSE i \in raising : \A j \in raising : i <= j]
        ELSE IF selector.type = "NegationSelector" THEN Negate(test)
        ELSE test

\* left_inside == '1': the element matching 1 still needs to exist
LeftExists(combinator) ==
    IF combinator \in {" ", ">"} THEN [op |-> "parent_is_not_none"]
    ELSE IF combinator \in {"~", "+"} THEN [op |-> "previous_is_not_none"]
    ELSE Raise("SelectorError")

\* LeftSearch with '+' searching every preceding sibling, as '~' does.
LeftSearchAnySibling(combinator, left_inside) ==
    IF combinator = " "
    THEN [op |-> "any_ancestors", inside |-> left_inside]
    ELSE IF combinator = ">"
    THEN [op |-> "next_parent", inside |-> left_inside]
    ELSE IF combinator \in {"+", "~"}
    THEN [op |-> "any_previous_siblings", inside |-> left_inside]
    ELSE Raise("SelectorError")

\* the generator expressions that rebind `el` to the relatives of el
LeftSearch(combinator, left_inside) ==
    IF combinator = " "
    THEN [op |-> "any_ancestors", inside |-> left_inside]
    ELSE IF combinator = ">"
    THEN [op |-> "next_parent", inside |-> left_inside]
    ELSE IF combinator = "+"
    THEN [op |-> "next_previous", inside |-> left_inside]
    ELSE IF combinator = "~"
    THEN [op |-> "any_previous_siblings", inside |-> left_inside]
    ELSE Raise("SelectorError")

\* CombineRight with the operands pasted in source order: (left) and (right).
CombineLeftFirst(right, left) ==
    IF right = Zero THEN Zero
    ELSE IF right = One THEN left
    ELSE [op |-> "and", args |-> <<left, right>>]

\* '(%s) and (%s)' % (right, left), unless right is a literal
CombineRight(right, left) ==
    IF right = Zero THEN Zero
    ELSE IF right = One THEN left
    ELSE [op |-> "and", args |-> <<right, left>>]

CompileCombined(selector) ==
    LET left_inside == _compile_node(selector.left)
        left == IF left_inside = One
                THEN LeftExists(selector.combinator)
                ELSE LeftSearch(selector.combinator, left_inside)
        right == _compile_node(selector.right)
    IN  IF IsRaise(left_inside) THEN left_inside
        ELSE IF left_inside = Zero THEN Zero
        ELSE IF IsRaise(left) THEN left
        ELSE IF IsRaise(right) THEN right
        ELSE CombineRight(right, left)

_compile_node(selector) ==
    IF selector.type = "CombinedSelector" THEN CompileCombined(selector)
    ELSE IF IsCompound(selector) THEN CompileCompound(selector)
    ELSE IF selector.type = "LocalNameSelector"
    THEN [op |-> "local_name_eq", value |-> selector.local_name]
    ELSE IF selector.type = "NamespaceSelector"
    THEN [op |-> "namespace_url_eq", value |-> selector.namespace]
    ELSE IF selector.type = "ClassSelector"
    THEN [op |-> "in_classes", value |-> selector.class_name]
    ELSE IF selector.type = "IDSelector"
    THEN [op |-> "id_eq", value |-> selector.ident]
    ELSE IF selector.type = "AttributeSelector"
    THEN CompileAttribute(selector)
    ELSE IF selector.type = "PseudoClassSelector"
    THEN CompilePseudoClass(selector)
    ELSE IF selector.type = "FunctionalPseudoClassSelector"
    THEN CompileFunctionalPseudoClass(selector)
    ELSE Raise("TypeError")

(***************************************************************************)
(* Evaluation of the generated expression on an element.  A run yields the *)
(* value's truth, whether AttributeError was raised (el is None and one of *)
(* its attributes is read) and the trace of what was touched, in order:    *)
(* <<"test", e>> for a simple test on e, and one event per read the        *)
(* combinator code makes of e's relatives.                                 *)
(***************************************************************************)
Result(value, tr) == [value |-> value, raised |-> FALSE, trace |-> tr]

AttributeError == [value |-> FALSE, raised |-> TRUE, trace |-> <<>>]

After(tr, r) == [r EXCEPT !.trace = tr \o @]

\* html_tag_eq(*local_names)
html_tag_eq(e, local_names) ==
    etree_tag(e) \in {<<XHTML, n>> : n \in local_names}

FormControls ==
    {"button", "input", "select", "textarea", "option", "optgroup",
     "menuitem", "fieldset"}

Hyperlinks == {"a", "area", "link"}

\* el.etree_siblings[:el.index]
SiblingsBefore(e) == SubSeq(etree_siblings(e), 1, index(e))

\* el.etree_siblings[el.index + 1:]
SiblingsAfter(e) ==
    SubSeq(etree_siblings(e), index(e) + 2, Len(etree_siblings(e)))

\* sum(1 for s in siblings if s.tag == el.etree_element.tag)
SameTagCount(siblings, e) ==
    Cardinality({i \in 1..Len(siblings) : etree_tag(siblings[i]) = etree_tag(e)})

PseudoClassHolds(name, e) ==
    IF name = "link"
    THEN html_tag_eq(e, Hyperlinks) /\ get_attr(e, <<"", "href">>) # None
    ELSE IF name = "enabled"
    THEN \/ (html_tag_eq(e, FormControls) /\ get_attr(e, <<"", "disabled">>) = None)
         \/ (html_tag_eq(e, Hyperlinks) /\ get_attr(e, <<"", "href">>) # None)
    ELSE IF name = "disabled"
    THEN html_tag_eq(e, FormControls) /\ get_attr(e, <<"", "disabled">>) # None
    ELSE IF name = "checked"
    THEN \/ (html_tag_eq(e, {"input", "menuitem"}) /\ get_attr(e, <<"", "checked">>) # None)
         \/ (html_tag_eq(e, {"option"}) /\ get_attr(e, <<"", "selected">>) # None)
    ELSE IF name = "root" THEN parent(e) = NoElement
    ELSE IF name = "first-child" THEN index(e) = 0
    ELSE IF name = "last-child" THEN index(e) + 1 = Len(etree_siblings(e))
    ELSE IF name = "first-of-type" THEN SameTagCount(SiblingsBefore(e), e) = 0
    ELSE IF name = "last-of-type" THEN SameTagCount(SiblingsAfter(e), e) = 0
    ELSE IF name = "only-child" THEN Len(etree_siblings(e)) = 1
    ELSE IF name = "only-of-type"
    THEN \A i \in 1..Len(etree_siblings(e)) :
            etree_tag(etree_siblings(e)[i]) # etree_tag(e) \/ i - 1 = index(e)
    ELSE \* "empty"
         ~(etree_children(e) # {} \/ profile(e).text)

\* the `count` expression of the nth-* pseudo-classes
Count(name, e) ==
    IF name = "nth-child" THEN index(e)
    ELSE IF name = "nth-last-child" THEN Len(etree_siblings(e)) - index(e) - 1
    ELSE IF name = "nth-of-type" THEN SameTagCount(SiblingsBefore(e), e)
    ELSE SameTagCount(SiblingsAfter(e), e)

\* The simple tests: every generated expression that reads only `el`.
AtomHolds(expr, e) ==
    IF expr.op = "local_name_eq" THEN local_name(e) = expr.value
    ELSE IF expr.op = "namespace_url_eq" THEN namespace_url(e) = Some(expr.value)
    ELSE IF expr.op = "in_classes" THEN expr.value \in profile(e).classes
    ELSE IF expr.op = "id_eq" THEN profile(e).id = Some(expr.value)
    ELSE IF expr.op = "attr_present" THEN get_attr(e, expr.key) # None
    ELSE IF expr.op = "attr_eq" THEN get_attr(e, expr.key) = Some(expr.value)
    ELSE IF expr.op = "attr_includes"
    THEN expr.value \in split_whitespace(get_attr_default(e, expr.key, <<>>))
    ELSE IF expr.op = "attr_dash"
    THEN LET v == get_attr(e, expr.key)
         IN  v = Some(expr.value) \/ (v # None /\ StartsWith(v[1], expr.prefix))
    ELSE IF expr.op = "attr_prefix"
    THEN StartsWith(get_attr_default(e, expr.key, <<>>), expr.value)
    ELSE IF expr.op = "attr_suffix"
    THEN EndsWith(get_attr_default(e, expr.key, <<>>), expr.value)
    ELSE IF expr.op = "attr_substring"
    THEN Contains(get_attr_default(e, expr.key, <<>>), expr.value)
    ELSE IF expr.op = "pseudo" THEN PseudoClassHolds(expr.name, e)
    ELSE IF expr.op = "lang"
    THEN \/ profile(e).lang = Some(expr.lang)
         \/ (profile(e).lang # None /\ StartsWith(profile(e).lang[1], expr.prefix))
    ELSE IF expr.op = "count_eq" THEN Count(expr.count, e) = expr.B
    ELSE \* "divmod_test": next(r == 0 and n >= 0 for n, r in [divmod(...)])
         LET nr == divmod(Count(expr.count, e) - expr.B, expr.a)
         IN  nr.r = 0 /\ nr.n >= 0

RECURSIVE Run(_, _)

\* (a) and (b) and ...: left to right, stopping at the first false operand
RECURSIVE RunAnd(_, _, _)
RunAnd(args, i, e) ==
    LET r == Run(args[i], e)
    IN  IF r.raised \/ ~r.value \/ i = Len(args) THEN r
        ELSE After(r.trace, RunAnd(args, i + 1, e))

\* any((inside) for el in elements): stops at the first true
RECURSIVE RunAny(_, _, _)
RunAny(inside, elements, i) ==
    IF i > Len(elements) THEN Result(FALSE, <<>>)
    ELSE LET r == Run(inside, elements[i])
         IN  IF r.raised \/ r.value THEN r
             ELSE After(r.trace, RunAny(inside, elements, i + 1))

\* next(el is not None and (inside) for el in [relative])
RunNext(inside, relative) ==
    IF relative = NoElement THEN Result(FALSE, <<>>) ELSE Run(inside, relative)

Run(expr, e) ==
    IF expr.op = "0" THEN Result(FALSE, <<>>)
    ELSE IF expr.op = "1" THEN Result(TRUE, <<>>)
    ELSE IF expr.op = "and" THEN RunAnd(expr.args, 1, e)
    ELSE IF expr.op = "not"
    THEN LET r == Run(expr.arg, e)
         IN  IF r.raised THEN r ELSE [r EXCEPT !.value = ~@]
    ELSE IF e = NoElement THEN AttributeError
    ELSE IF expr.op = "parent_is_not_none"
    THEN Result(parent(e) # NoElement, << <<"parent", e>> >>)
    ELSE IF expr.op = "previous_is_not_none"
    THEN Result(previous(e) # NoElement, << <<"previous", e>> >>)
    ELSE IF expr.op = "any_ancestors"
    THEN After(<< <<"iter_ancestors", e>> >>,
               RunAny(expr.inside, iter_ancestors(e), 1))
    ELSE IF expr.op = "next_parent"
    THEN After(<< <<"parent", e>> >>, RunNext(expr.inside, parent(e)))
    ELSE IF expr.op = "next_previous"
    THEN After(<< <<"previous", e>> >>, RunNext(expr.inside, previous(e)))
    ELSE IF expr.op = "any_previous_siblings"
    THEN After(<< <<"iter_previous_siblings", e>> >>,
               RunAny(expr.inside, iter_previous_siblings(e), 1))
    ELSE Result(AtomHolds(expr, e), << <<"test", e>> >>)

(***************************************************************************)
(* CompiledSelector.__init__                                               *)
(***************************************************************************)
NoHints == [id |-> None, class_name |-> None, local_name |-> None,
            namespace |-> None]

\* Hints keeping the first selector found of each kind.
RECURSIVE HintsFirst(_, _, _)
HintsFirst(simple_selectors, i, found) ==
    IF i > Len(simple_selectors) THEN found
    ELSE LET simple_selector == simple_selectors[i]
         IN  HintsFirst(simple_selectors, i + 1,
                 IF simple_selector.type = "IDSelector" /\ found.id = None
                 THEN [found EXCEPT !.id = Some(simple_selector.ident)]
                 ELSE IF simple_selector.type = "ClassSelector"
                         /\ found.class_name = None
                 THEN [found EXCEPT !.class_name = Some(simple_selector.class_name)]
                 ELSE IF simple_selector.type = "LocalNameSelector"
                         /\ found.local_name = None
                 THEN [found EXCEPT !.local_name = Some(simple_selector.local_name)]
                 ELSE IF simple_selector.type = "NamespaceSelector"
                         /\ found.namespace = None
                 THEN [found EXCEPT !.namespace = Some(simple_selector.namespace)]
                 ELSE found)

\* Hints reading the simple selectors of a negation too.
RECURSIVE HintsIntoNegation(_, _, _)
HintsIntoNegation(simple_selectors, i, found) ==
    IF i > Len(simple_selectors) THEN found
    ELSE LET simple_selector == simple_selectors[i]
         IN  HintsIntoNegation(simple_selectors, i + 1,
                 IF simple_selector.type = "IDSelector"
                 THEN [found EXCEPT !.id = Some(simple_selector.ident)]
                 ELSE IF simple_selector.type = "ClassSelector"
                 THEN [found EXCEPT !.class_name = Some(simple_selector.class_name)]
                 ELSE IF simple_selector.type = "LocalNameSelector"
                 THEN [found EXCEPT !.local_name = Some(simple_selector.local_name)]
                 ELSE IF simple_selector.type = "NamespaceSelector"
                 THEN [found EXCEPT !.namespace = Some(simple_selector.namespace)]
                 ELSE IF simple_selector.type = "NegationSelector"
                 THEN HintsIntoNegation(simple_selector.simple_selectors, 1, found)
                 ELSE found)

\* for simple_selector in node.simple_selectors: ... (from position i on)
RECURSIVE Hints(_, _, _)
Hints(simple_selectors, i, found) ==
    IF i > Len(simple_selectors) THEN found
    ELSE LET simple_selector == simple_selectors[i]
         IN  Hints(simple_selectors, i + 1,
                 IF simple_selector.type = "IDSelector"
                 THEN [found EXCEPT !.id = Some(simple_selector.ident)]
                 ELSE IF simple_selector.type = "ClassSelector"
                 THEN [found EXCEPT !.class_name = Some(simple_selector.class_name)]
                 ELSE IF simple_selector.type = "LocalNameSelector"
                 THEN [found EXCEPT !.local_name = Some(simple_selector.local_name)]
                 ELSE IF simple_selector.type = "NamespaceSelector"
                 THEN [found EXCEPT !.namespace = Some(simple_selector.namespace)]
                 ELSE found)

\* NeverMatches set for either literal.
NeverMatchesAnyLiteral(source) == source \in {Zero, One}

\* self.never_matches = source == '0'
NeverMatches(source) == source = Zero

\* node = parsed_tree; if isinstance(node, CombinedSelector): node = node.right
SubjectCompound(parsed_tree) ==
    IF parsed_tree.type = "CombinedSelector" THEN parsed_tree.right
    ELSE parsed_tree

\* The object constructed, or the exception that left none.
CompiledSelector(parsed_tree) ==
    LET source == _compile_node(parsed_tree)
    IN  IF IsRaise(source)
        THEN [raised |-> Some(source.exc), source |-> Zero,
              never_matches |-> FALSE, hints |-> NoHints]
        ELSE [raised |-> None, source |-> source,
              never_matches |-> NeverMatches(source),
              hints |-> Hints(SubjectCompound(parsed_tree).simple_selectors,
                              1, NoHints)]

(***************************************************************************)
(* The state machine: a caller compiles a parsed selector                  *)
(* (CompiledSelector(selector), as compile_selector_list does for each     *)
(* selector of the list) and calls the matcher `test` on elements of the   *)
(* document, or on None.                                                   *)
(***************************************************************************)
NoSelector == [type |-> "none"]

NotCompiled ==
    [raised |-> Some("none"), source |-> Zero, never_matches |-> FALSE,
     hints |-> NoHints]

NotCalled == [called |-> FALSE, raised |-> FALSE, value |-> FALSE]

\* The ordered trees on Nodes: node 1 is the root, parents come first.
Shapes ==
    {p \in [Nodes -> 0..NumNodes] :
        p[1] = NoElement /\ \A n \in Nodes \ {1} : p[n] \in 1..(n - 1)}

\* Every profile in turn, from any starting profile.
Rotations ==
    {[n \in Nodes |-> ((n - 1 + r) % Len(Profiles)) + 1] : r \in 1..Len(Profiles)}

Documents == {[parent |-> p, kind |-> k] : p \in Shapes, k \in Rotations}

\* Documents of the two profiles <a> and <div>, in every arrangement under
\* a root <a>.
TagDocuments ==
    {[parent |-> p, kind |-> k] :
        p \in Shapes, k \in {f \in [Nodes -> {1, 2}] : f[1] = 1}}

\* The sequences over S of length at most n.
SeqsUpTo(S, n) == UNION {[1..k -> S] : k \in 0..n}

InitWith(documents) ==
    /\ doc \in documents
    /\ parsed = NoSelector
    /\ compiled = NotCompiled
    /\ el = NoElement
    /\ outcome = NotCalled
    /\ trace = <<>>

\* compiled = CompiledSelector(selector): the constructor, once per object
CompileSelector(selector) ==
    /\ parsed = NoSelector
    /\ parsed' = selector
    /\ compiled' = CompiledSelector(selector)
    /\ el' = NoElement
    /\ outcome' = NotCalled
    /\ trace' = <<>>
    /\ UNCHANGED doc

\* compiled.test(e)
Test(e) ==
    /\ compiled.raised = None
    /\ LET r == Run(compiled.source, e)
       IN  /\ el' = e
           /\ outcome' = [called |-> TRUE, raised |-> r.raised, value |-> r.value]
           /\ trace' = r.trace
    /\ UNCHANGED <<doc, parsed, compiled>>

Elements == Nodes \cup {NoElement}

(***************************************************************************)
(* Selectors with combinators: every combinator, known or not, between     *)
(* operands that compile to '1', to '0' and to a test, chains of two       *)
(* combinators, and operands that do not compile.                          *)
(***************************************************************************)
Combinators == {" ", ">", "+", "~"}

UnknownCombinator == "!"

Universal == CompoundSelector(<<>>)

ClassX == CompoundSelector(<<ClassSelector("x")>>)

ClassY == CompoundSelector(<<ClassSelector("y")>>)

Hover == CompoundSelector(<<PseudoClassSelector("hover")>>)

FirstChild == CompoundSelector(<<PseudoClassSelector("first-child")>>)

Operands == {Universal, ClassX, ClassY, Hover}

\* One simple selector for each way _compile_node raises.
FaultySimpleSelectors ==
    {PseudoClassSelector("bogus"),
     AttributeSelector(None, "title", None, <<>>),
     AttributeSelector(Some(""), "title", Some("!="), <<"a">>),
     FunctionalPseudoClassSelector("nth-child", <<[type |-> "ident", value |-> <<"x">>]>>),
     FunctionalPseudoClassSelector("lang", <<>>),
     FunctionalPseudoClassSelector("bogus", <<[type |-> "an+b", value |-> <<2, 1>>]>>),
     UnknownNode}

FaultyOperands == {CompoundSelector(<<s>>) : s \in FaultySimpleSelectors}

Chains1 ==
    {CombinedSelector(l, c, r) :
        l \in Operands, c \in Combinators \cup {UnknownCombinator}, r \in Operands}

InnerChains ==
    {CombinedSelector(l, c, r) :
        l \in {Universal, ClassY}, c \in Combinators, r \in {ClassX, ClassY}}

Chains2 ==
    {CombinedSelector(l, c, r) :
        l \in InnerChains, c \in Combinators, r \in {Universal, ClassX, FirstChild}}

FaultyChains ==
    {CombinedSelector(l, c, r) :
        l \in {Universal, ClassX, Hover}, c \in {">", UnknownCombinator},
        r \in FaultyOperands}
    \cup {CombinedSelector(l, c, ClassX) :
            l \in FaultyOperands, c \in {" ", UnknownCombinator}}
    \cup {CombinedSelector(CombinedSelector(Hover, "+", r), "~", ClassX) :
            r \in FaultyOperands}
    \cup {CompoundSelector(<<PseudoClassSelector("hover"), s>>) :
            s \in FaultySimpleSelectors}
    \cup {CompoundSelector(<<NegationSelector(<<s>>)>>) :
            s \in FaultySimpleSelectors}

CombinedFamily ==
    Operands \cup FaultyOperands \cup Chains1 \cup Chains2 \cup FaultyChains

InitCombined == InitWith(Documents)

NextCombined ==
    \/ \E selector \in CombinedFamily : CompileSelector(selector)
    \/ \E e \in Elements : Test(e)

SpecCombined == InitCombined /\ [][NextCombined]_vars

(***************************************************************************)
(* What is checked of the combinators.                                     *)
(***************************************************************************)
\* The selector compiles and its test holds on e.
Matches(selector, e) ==
    LET source == _compile_node(selector)
    IN  ~IsRaise(source) /\ Run(source, e).value

\* The k-th ancestor of e, 0 when there is none.
RECURSIVE Up(_, _)
Up(e, k) ==
    IF e = NoElement \/ k = 0 THEN e ELSE Up(doc.parent[e], k - 1)

\* The elements a combinator relates to e.
Related(combinator, e) ==
    IF combinator = " " THEN {Up(e, k) : k \in 1..NumNodes} \ {NoElement}
    ELSE IF combinator = ">" THEN {doc.parent[e]} \ {NoElement}
    ELSE IF combinator = "~"
    THEN {s \in Nodes : doc.parent[s] = doc.parent[e] /\ s < e}
    ELSE \* "+": the last of the preceding siblings
         {s \in Nodes :
            /\ doc.parent[s] = doc.parent[e] /\ s < e
            /\ \A t \in Nodes : doc.parent[t] = doc.parent[e] /\ t < e => t <= s}

TestedCombined ==
    /\ outcome.called
    /\ el # NoElement
    /\ parsed.type = "CombinedSelector"

\* C1: the matcher of a CombinedSelector with one of the four combinators
\* returns true on an element exactly when the right operand matches the
\* element and the left operand matches a related element: some strict
\* ancestor for ' ', the parent for '>', the immediately preceding sibling
\* for '+', some preceding sibling for '~'; also for chains and for
\* operands simplified to '1' or '0'.
C1_CombinatorSemantics ==
    (TestedCombined /\ parsed.combinator \in Combinators)
    => /\ ~outcome.raised
       /\ outcome.value
            = (/\ Matches(parsed.right, el)
               /\ \E r \in Related(parsed.combinator, el) : Matches(parsed.left, r))

\* A chain of two combinators matched through an ancestor that is not the
\* parent.
C1_Witness ==
    /\ TestedCombined
    /\ parsed.left.type = "CombinedSelector"
    /\ parsed.combinator = " "
    /\ outcome.value
    /\ ~Matches(parsed.left, doc.parent[el])

\* C5 (as claimed): compiling a CombinedSelector whose combinator is not one
\* of ' ', '>', '+', '~' raises SelectorError, whatever its operands
\* compile to.
C5_UnknownCombinatorRaises ==
    (/\ parsed.type = "CombinedSelector"
     /\ parsed.combinator \notin Combinators
     /\ ~IsRaise(_compile_node(parsed.left))
     /\ ~IsRaise(_compile_node(parsed.right)))
    => compiled.raised = Some("SelectorError")

\* The node itself is one _compile_node rejects.
FaultyNode(node) ==
    \/ node.type \notin {"CombinedSelector", "CompoundSelector", "NegationSelector",
                         "LocalNameSelector", "NamespaceSelector", "ClassSelector",
                         "IDSelector", "AttributeSelector", "PseudoClassSelector",
                         "FunctionalPseudoClassSelector"}
    \/ /\ node.type = "PseudoClassSelector"
       /\ node.name \notin StaticPseudoClasses
                             \cup {"visited", "hover", "active", "focus", "target"}
    \/ /\ node.type = "AttributeSelector"
       /\ \/ node.namespace = None
          \/ node.operator \notin {None, Some("="), Some("~="), Some("|="),
                                   Some("^="), Some("$="), Some("*=")}
    \/ /\ node.type = "FunctionalPseudoClassSelector"
       /\ \/ node.name \notin NthNames \cup {"lang"}
          \/ node.name \in NthNames /\ parse_nth(node.arguments) = None
          \/ /\ node.name = "lang"
             /\ LET tokens == SelectSeq(node.arguments, NotWhitespace)
                IN  ~(Len(tokens) = 1 /\ tokens[1].type = "ident")

\* Some node of the tree, at any position, is one _compile_node rejects.
RECURSIVE HasFault(_)
HasFault(node) ==
    \/ FaultyNode(node)
    \/ /\ node.type = "CombinedSelector"
       /\ (HasFault(node.left) \/ HasFault(node.right))
    \/ /\ IsCompound(node)
       /\ \E i \in 1..Len(node.simple_selectors) : HasFault(node.simple_selectors[i])

\* C6 (as claimed): a selector tree that holds, at any position, an unknown
\* pseudo-class, an unknown attribute operator, malformed functional
\* arguments, an unqualified attribute selector or an unrecognized node
\* fails to compile: an exception is raised and no CompiledSelector exists.
C6_FaultsRaise ==
    (parsed # NoSelector /\ HasFault(parsed)) => compiled.raised # None

TraceOf(selector, e) == Run(_compile_node(selector), e).trace

IsGeneral(selector) ==
    LET source == _compile_node(selector)
    IN  ~IsRaise(source) /\ source # Zero /\ source # One

\* The positions of the trace that belong to the search of a relative.
SearchPositions ==
    {i \in 1..Len(trace) : trace[i] # <<"test", el>>}

\* C9: on a CombinedSelector with general left and right, the right-hand
\* test runs first and the left-hand search (the read of el.parent or
\* el.previous, the ancestor or sibling iteration) runs only after the
\* right-hand test returned true; when it returned false no relative is
\* visited.
C9_RightFirst ==
    (TestedCombined /\ IsGeneral(parsed.left) /\ IsGeneral(parsed.right)
        /\ parsed.combinator \in Combinators)
    => LET rt == TraceOf(parsed.right, el)
       IN  /\ Len(rt) <= Len(trace) /\ SubSeq(trace, 1, Len(rt)) = rt
           /\ \A i \in SearchPositions : i > Len(rt) /\ Matches(parsed.right, el)
           /\ Matches(parsed.right, el) => SearchPositions # {}

\* The right-hand test failed on an element that has a parent matching the
\* left operand: the search would have found it.
C9_Witness ==
    /\ TestedCombined /\ IsGeneral(parsed.left) /\ IsGeneral(parsed.right)
    /\ parsed.combinator = ">"
    /\ ~Matches(parsed.right, el)
    /\ doc.parent[el] # NoElement
    /\ Matches(parsed.left, doc.parent[el])
    /\ trace = << <<"test", el>> >>

(***************************************************************************)
(* The structural counting pseudo-classes: every (a, b) of the bound, on   *)
(* documents whose siblings share tags in every arrangement.               *)
(***************************************************************************)
NthRange == (-MaxNth)..MaxNth

NthSelector(name, a, b) ==
    CompoundSelector(<<FunctionalPseudoClassSelector(
        name, <<[type |-> "an+b", value |-> <<a, b>>]>>)>>)

NthFamily == {NthSelector(name, a, b) : name \in NthNames, a \in NthRange, b \in NthRange}

InitNth == InitWith(TagDocuments)

NextNth ==
    \/ \E selector \in NthFamily : CompileSelector(selector)
    \/ \E e \in Elements : Test(e)

SpecNth == InitNth /\ [][NextNth]_vars

\* The siblings of e that the pseudo-class counts.
CountedSiblings(name, e) ==
    LET before == {s \in Nodes : doc.parent[s] = doc.parent[e] /\ s < e}
        after == {s \in Nodes : doc.parent[s] = doc.parent[e] /\ s > e}
        same == {s \in Nodes : Profiles[doc.kind[s]].tag = Profiles[doc.kind[e]].tag}
    IN  IF name = "nth-child" THEN before
        ELSE IF name = "nth-last-child" THEN after
        ELSE IF name = "nth-of-type" THEN before \cap same
        ELSE after \cap same

TestedNth ==
    /\ outcome.called
    /\ el # NoElement
    /\ parsed.type = "CompoundSelector"
    /\ Len(parsed.simple_selectors) = 1
    /\ parsed.simple_selectors[1].type = "FunctionalPseudoClassSelector"
    /\ parsed.simple_selectors[1].name \in NthNames

NthA == parsed.simple_selectors[1].arguments[1].value[1]

NthB == parsed.simple_selectors[1].arguments[1].value[2]

NthX == Cardinality(CountedSiblings(parsed.simple_selectors[1].name, el))

\* C3: for every (A, B), A negative, zero or positive, the nth-child,
\* nth-last-child, nth-of-type and nth-last-of-type tests return true on an
\* element with sibling count x exactly when x = A*n + (B - 1) for some
\* integer n >= 0 (x = B - 1 when A = 0), and the evaluation never fails.
C3_NthArithmetic ==
    TestedNth
    => /\ ~outcome.raised
       /\ outcome.value
            = (\E n \in 0..(NumNodes + MaxNth + 1) : NthX = NthA * n + (NthB - 1))

\* A negative A matched with n > 0 on an element with same-tag siblings
\* after it.
C3_Witness ==
    /\ TestedNth
    /\ parsed.simple_selectors[1].name = "nth-last-of-type"
    /\ NthA < 0
    /\ NthX = 1
    /\ NthB = 3
    /\ outcome.value

(***************************************************************************)
(* Attribute selectors: every operator with every operand of the bound.    *)
(***************************************************************************)
AttrChars == {"a", "b", " ", VT}

AttrOperators ==
    {None, Some("="), Some("~="), Some("|="), Some("^="), Some("$="), Some("*=")}

AttributeFamily ==
    {CompoundSelector(<<AttributeSelector(Some(""), "title", operator, value)>>) :
        operator \in AttrOperators, value \in SeqsUpTo(AttrChars, MaxValueLen)}
    \cup {CompoundSelector(<<AttributeSelector(Some("ns"), "title", operator, value)>>) :
            operator \in AttrOperators, value \in SeqsUpTo(AttrChars, 1)}

InitAttribute == InitWith(Documents)

NextAttribute ==
    \/ \E selector \in AttributeFamily : CompileSelector(selector)
    \/ \E e \in Elements : Test(e)

SpecAttribute == InitAttribute /\ [][NextAttribute]_vars

CompiledAttribute ==
    /\ compiled.raised = None
    /\ parsed.type = "CompoundSelector"
    /\ Len(parsed.simple_selectors) = 1
    /\ parsed.simple_selectors[1].type = "AttributeSelector"

\* The operand is empty or holds whitespace: it is not one bare token.
NotOneToken(value) ==
    value = <<>> \/ \E i \in 1..Len(value) : IsCssWhitespace(value[i])

NeverMatchingOperand(selector) ==
    \/ selector.operator = Some("~=") /\ NotOneToken(selector.value)
    \/ selector.operator \in {Some("^="), Some("$="), Some("*=")}
         /\ selector.value = <<>>

NotClassX == NegationSelector(<<ClassSelector("x")>>)

NotClassY == NegationSelector(<<ClassSelector("y")>>)

SimpleSelectors ==
    {ClassSelector("x"), ClassSelector("y"), IDSelector("foo"),
     PseudoClassSelector("hover"), NotClassX, NotClassY,
     NegationSelector(<<PseudoClassSelector("hover")>>), NegationSelector(<<>>)}

Compounds == {CompoundSelector(ss) : ss \in SeqsUpTo(SimpleSelectors, MaxSimple)}

\* '0' from an operand of an attribute selector, from either side of a
\* combinator, and '1' from a negation.
NeverFamily ==
    {CompoundSelector(<<AttributeSelector(Some(""), "title", Some("^="), <<>>)>>),
     CompoundSelector(<<NegationSelector(<<ClassSelector("x"),
                                           PseudoClassSelector("hover")>>)>>),
     CombinedSelector(Hover, ">", ClassX),
     CombinedSelector(ClassX, " ", Hover),
     CombinedSelector(ClassX, "+", CompoundSelector(<<NegationSelector(<<>>)>>)),
     CombinedSelector(CombinedSelector(ClassX, "~", Hover), " ", ClassY),
     CombinedSelector(Universal, ">", Universal)}

CompoundFamily == Compounds \cup NeverFamily

InitCompound == InitWith(Documents)

NextCompound ==
    \/ \E selector \in CompoundFamily : CompileSelector(selector)
    \/ \E e \in Elements : Test(e)

SpecCompound == InitCompound /\ [][NextCompound]_vars

CompiledCompound == compiled.raised = None /\ parsed.type = "CompoundSelector"

IsLiteralTrue(selector) == _compile_node(selector) = One

NotLiteralTrue(selector) == ~IsLiteralTrue(selector)

\* C7: the test of a CompoundSelector is the conjunction of the tests of
\* its simple selectors: the empty compound is '1', a compound with a
\* literal-false member is '0', literal-true members are dropped; a
\* NegationSelector is the exact complement of its compound ('1' and '0'
\* swapped, otherwise negated), so :not(.x):not(.y) matches exactly the
\* elements that have neither class.
C7_CompoundConjunction ==
    CompiledCompound
    => LET simple == parsed.simple_selectors
           tested == outcome.called /\ el # NoElement
       IN  /\ tested => (outcome.value = \A i \in 1..Len(simple) : Matches(simple[i], el))
           /\ simple = <<>> => compiled.source = One
           /\ (\E i \in 1..Len(simple) : _compile_node(simple[i]) = Zero)
                => compiled.source = Zero
           /\ compiled.source
                = _compile_node(CompoundSelector(SelectSeq(simple, NotLiteralTrue)))
           /\ \A i \in 1..Len(simple) :
                simple[i].type = "NegationSelector"
                => LET inner == CompoundSelector(simple[i].simple_selectors)
                   IN  /\ _compile_node(inner) = Zero => _compile_node(simple[i]) = One
                       /\ _compile_node(inner) = One => _compile_node(simple[i]) = Zero
                       /\ tested => (Matches(simple[i], el) = ~Matches(inner, el))
           /\ (tested /\ simple = <<NotClassX, NotClassY>>)
                => (outcome.value = (Profiles[doc.kind[el]].classes \cap {"x", "y"} = {}))

\* :not(.x):not(.y) on an element without classes.
C7_Witness ==
    /\ CompiledCompound
    /\ outcome.called
    /\ el # NoElement
    /\ parsed.simple_selectors = <<NotClassX, NotClassY>>
    /\ outcome.value

\* C2: never_matches is true exactly when the compiled expression is the
\* literal '0', and then the matcher returns false, without failing, on
\* every element and on None.
C2_NeverMatches ==
    (parsed # NoSelector /\ compiled.raised = None)
    => /\ compiled.never_matches = (_compile_node(parsed) = Zero)
       /\ (compiled.never_matches /\ outcome.called)
            => (~outcome.raised /\ ~outcome.value)

\* A selector with a combinator that never matches, called on None.
C2_Witness ==
    /\ compiled.never_matches
    /\ parsed.type = "CombinedSelector"
    /\ outcome.called
    /\ el = NoElement
    /\ ~outcome.value

(***************************************************************************)
(* The fast-reject hints: compounds of the four hinted kinds, with two     *)
(* selectors of a kind, a negation, and the same under a combinator.       *)
(***************************************************************************)
HintedSelectors ==
    {IDSelector("foo"), IDSelector("bar"), ClassSelector("x"), ClassSelector("y"),
     LocalNameSelector("a"), NamespaceSelector(XHTML),
     NegationSelector(<<IDSelector("bar")>>)}

HintedCompounds ==
    {CompoundSelector(ss) : ss \in SeqsUpTo(HintedSelectors, MaxSimple)}

HintsFamily ==
    HintedCompounds
    \cup {CombinedSelector(
                CompoundSelector(<<IDSelector("bar"), LocalNameSelector("input")>>),
                " ", r) : r \in HintedCompounds}

InitHints == InitWith(Documents)

NextHints ==
    \/ \E selector \in HintsFamily : CompileSelector(selector)
    \/ \E e \in Elements : Test(e)

SpecHints == InitHints /\ [][NextHints]_vars

\* The direct simple selectors of the subject compound: the right operand
\* of the outermost combinator, or the whole tree.
Subject ==
    IF parsed.type = "CombinedSelector" THEN parsed.right.simple_selectors
    ELSE parsed.simple_selectors

OfKind(type) == {i \in 1..Len(Subject) : Subject[i].type = type}

First(indices) == CHOOSE i \in indices : \A j \in indices : i <= j

Last(indices) == CHOOSE i \in indices : \A j \in indices : j <= i

Compiled == parsed # NoSelector /\ compiled.raised = None

\* C4 (as claimed): each hint is taken from the FIRST direct simple selector
\* of its kind in the subject compound, and is None when there is none.
C4_FirstOfKind ==
    Compiled
    => /\ compiled.hints.id
            = IF OfKind("IDSelector") = {} THEN None
              ELSE Some(Subject[First(OfKind("IDSelector"))].ident)
       /\ compiled.hints.class_name
            = IF OfKind("ClassSelector") = {} THEN None
              ELSE Some(Subject[First(OfKind("ClassSelector"))].class_name)
       /\ compiled.hints.local_name
            = IF OfKind("LocalNameSelector") = {} THEN None
              ELSE Some(Subject[First(OfKind("LocalNameSelector"))].local_name)
       /\ compiled.hints.namespace
            = IF OfKind("NamespaceSelector") = {} THEN None
              ELSE Some(Subject[First(OfKind("NamespaceSelector"))].namespace)

\* C4 (amended): each hint is taken from the LAST direct simple selector of
\* its kind in the subject compound (the right operand of the outermost
\* combinator, or the whole tree), and is None when there is none.
C4_LastOfKind ==
    Compiled
    => /\ compiled.hints.id
            = IF OfKind("IDSelector") = {} THEN None
              ELSE Some(Subject[Last(OfKind("IDSelector"))].ident)
       /\ compiled.hints.class_name
            = IF OfKind("ClassSelector") = {} THEN None
              ELSE Some(Subject[Last(OfKind("ClassSelector"))].class_name)
       /\ compiled.hints.local_name
            = IF OfKind("LocalNameSelector") = {} THEN None
              ELSE Some(Subject[Last(OfKind("LocalNameSelector"))].local_name)
       /\ compiled.hints.namespace
            = IF OfKind("NamespaceSelector") = {} THEN None
              ELSE Some(Subject[Last(OfKind("NamespaceSelector"))].namespace)

\* Two ID selectors in the subject compound of a combinator: the second is
\* the hint.
C4_Witness ==
    /\ Compiled
    /\ parsed.type = "CombinedSelector"
    /\ Subject = <<IDSelector("foo"), IDSelector("bar")>>
    /\ compiled.hints.id = Some("bar")
    /\ compiled.hints.class_name = None

\* C10: the hints are a sound prefilter: on every element the matcher
\* accepts, each hint that is not None holds (el.id, el.classes,
\* el.local_name, el.namespace_url); no hint comes from inside a negation
\* or from the left of a combinator.
C10_HintsSound ==
    (Compiled /\ outcome.called /\ el # NoElement /\ outcome.value)
    => LET hints == compiled.hints
           element == Profiles[doc.kind[el]]
       IN  /\ hints.id # None => element.id = hints.id
           /\ hints.class_name # None => hints.class_name[1] \in element.classes
           /\ hints.local_name # None => element.tag[2] = hints.local_name[1]
           /\ hints.namespace # None => element.tag[1] = hints.namespace[1]

\* A match under a combinator whose left operand and whose negation name
\* an id the element does not have.
C10_Witness ==
    /\ Compiled /\ outcome.called /\ el # NoElement /\ outcome.value
    /\ parsed.type = "CombinedSelector"
    /\ OfKind("NegationSelector") # {}
    /\ compiled.hints.id = Some("foo")
    /\ compiled.hints.local_name = None

====
